---------------------------- MODULE Spec2Model ----------------------------
(***************************************************************************)
(* Notion -> Slack task notifier.                                          *)
(*                                                                         *)
(* Three programs are modelled:                                            *)
(*   - index.js (src/unnamed/part_000): the file-guarded orchestrator run, *)
(*     started from the command line or by the handler of api/send.js;     *)
(*   - api/send.js: the HTTP handler wrapping run;                         *)
(*   - src/unnamed/part_001: the self-contained HTTP handler.              *)
(*                                                                         *)
(* Text is a sequence of pieces.  A piece is one character of task data    *)
(* ("a", "-", "\n", ...) or one literal of the source that holds neither a *)
(* hyphen nor a newline, kept whole.  Characters outside ASCII are spelled *)
(* in braces ("{bullet}", "{endash}").                                     *)
(***************************************************************************)
EXTENDS Integers, Sequences, FiniteSets, TLC

\* ------------------------------------------------------------------ bounds
MaxTasks == 2       \* longest task list handed to formatTasks
MaxRuns == 2        \* calls of run() of index.js started in one behaviour

\* --------------------------------------------------------------- constants
MorningLimitIndex == 12     \* index.js: period is morning when hour < 12
MorningLimitHandler == 15   \* part_001: period is morning when hour < 15

\* -------------------------------------------------------------------- text
NL == "\n"
Hyphen == "-"
\* JavaScript's undefined, for a text that is absent.
Undefined == <<"{undefined}">>
\* JavaScript truthiness of a text-or-undefined: undefined and "" are falsy.
Truthy(s) == s # Undefined /\ s # <<>>
\* a || b
OrElse(a, b) == IF Truthy(a) THEN a ELSE b

\* String.prototype.replace(/-/g, ""): every hyphen removed, left to right.
RECURSIVE replaceHyphens(_)
replaceHyphens(s) ==
    IF s = <<>> THEN <<>>
    ELSE IF Head(s) = Hyphen THEN replaceHyphens(Tail(s))
    ELSE <<Head(s)>> \o replaceHyphens(Tail(s))

\* Array.prototype.join(sep) on an array of texts.
RECURSIVE join(_, _)
join(lines, sep) ==
    IF lines = <<>> THEN <<>>
    ELSE IF Len(lines) = 1 THEN lines[1]
    ELSE lines[1] \o <<sep>> \o join(Tail(lines), sep)

\* A task as the formatter reads it: id, and the first rich-text segment's
\* plain_text of properties.Title, properties.Name, and properties.Status's
\* status name, each Undefined when any link of the optional chain is absent.
getTaskUrl(task) ==
    LET pageId == replaceHyphens(task.id)
    IN  <<"https://www.notion.so/">> \o pageId

TaskLine(task) ==
    LET name == OrElse(task.Title, OrElse(task.Name, <<"Sem t{iacute}tulo">>))
        status == OrElse(task.Status, <<"Sem status">>)
        url == getTaskUrl(task)
    IN  <<"{bullet} *<">> \o url \o <<"|">> \o name \o <<">* {endash} ">> \o status

formatTasks(tasks, title) ==
    IF Len(tasks) = 0
    THEN <<"*">> \o title \o <<"*", NL, "Nenhuma tarefa encontrada.">>
    ELSE LET lines == [i \in 1..Len(tasks) |-> TaskLine(tasks[i])]
         IN  <<"*">> \o title \o <<"*", NL>> \o join(lines, NL)

\* The titles run() and the handler pass to formatTasks.
MorningTitleIndex == <<"Bom dia! Estas s{atilde}o as tarefas para hoje:">>
EveningTitleIndex == <<"Resumo do dia {endash} altera{ccedil}{otilde}es:">>
MorningTitleHandler == <<"{sun} Bom dia! Estas s{atilde}o as tarefas para hoje:">>
EveningTitleHandler == <<"{moon} Resumo do dia {endash} tarefas alteradas:">>


\* ------------------------------------------------------------- outer world
Periods == {"morning", "evening"}
\* now.toISODate(): the day the model covers, and the day before it.
Yesterday == "2025-08-11"
Today == "2025-08-12"
\* Hours of the day (America/Sao_Paulo) at which the clock is observed.
HourSlots == <<9, 13, 18>>

SampleTask ==
    [id |-> <<"a", Hyphen, "b">>, Title |-> Undefined, Name |-> <<"n">>,
     Status |-> <<"s">>]
\* Result lists the task database may answer with.
QueryLists == {<<>>, <<SampleTask>>}

\* What one POST to the task database can come to: the connection fails
\* (net = FALSE), or a response arrives with a status (ok), a body that
\* parses as JSON or not (json), and a results member or none (hasResults).
NotionResponses ==
    {[net |-> FALSE, ok |-> FALSE, json |-> FALSE, hasResults |-> FALSE, results |-> <<>>]}
    \cup {[net |-> TRUE, ok |-> o, json |-> FALSE, hasResults |-> FALSE, results |-> <<>>]
            : o \in BOOLEAN}
    \cup {[net |-> TRUE, ok |-> o, json |-> TRUE, hasResults |-> FALSE, results |-> <<>>]
            : o \in BOOLEAN}
    \cup {[net |-> TRUE, ok |-> TRUE, json |-> TRUE, hasResults |-> TRUE, results |-> l]
            : l \in QueryLists}

\* What one POST to the webhook can come to.
SlackResponses == {"netfail", "ok", "notok"}

\* ------------------------------------------------------------------- state
VARIABLES
    now,        \* the wall clock: the hour of Today is HourSlots[now]
    file,       \* content of ./.last_send.json, shared by every process
    proc,       \* per process: "fresh" (index.js not evaluated yet) or "up"
    RUNNING,    \* per process: global.RUNNING
    run,        \* per slot: the position and locals of a call of run()
    started,    \* history: calls of run() so far, in the server process and
                \*          in command-line processes
    delivered,  \* history: per period of Today, posts the webhook answered ok
    overlapped, \* history: a run started while another was in flight
    ioFault,    \* history: a state-file read or write failed
    env,        \* part_001: the three environment variables, as read at load
    hnd,        \* part_001: the handler invocation's position and locals
    fmtTasks, fmtTitle, fmtOut  \* one application of formatTasks

runVars == <<file, proc, RUNNING, run, started, delivered, overlapped, ioFault>>
hndVars == <<env, hnd>>
fmtVars == <<fmtTasks, fmtTitle, fmtOut>>
vars == <<now, runVars, hndVars, fmtVars>>

\* The model follows two calls of run() at a time, each in a slot; a settled
\* call leaves its slot to a later one.  A call made by the handler of
\* api/send.js runs in the long-lived process "server"; a call made by
\* `node index.js` in slot r runs in a process of its own, CliProc[r].
Slots == {1, 2}
CliProc == <<"cli1", "cli2">>
Procs == {"server", "cli1", "cli2"}

\* ------------------------------------------------- index.js: pure functions
\* queryNotion: fetch, then res.json(), then the res.ok test.
queryNotion(resp) ==
    IF ~resp.net THEN [threw |-> TRUE, error |-> "FetchError", value |-> <<>>]
    ELSE IF ~resp.json THEN [threw |-> TRUE, error |-> "SyntaxError", value |-> <<>>]
    ELSE IF ~resp.ok THEN [threw |-> FALSE, error |-> "none", value |-> <<>>]
    ELSE [threw |-> FALSE, error |-> "none",
          value |-> IF resp.hasResults THEN resp.results ELSE <<>>]

\* sendToSlack of index.js: a non-ok answer is logged, nothing is thrown.
sendToSlackIndex(resp) ==
    IF resp = "netfail" THEN [threw |-> TRUE, error |-> "FetchError"]
    ELSE [threw |-> FALSE, error |-> "none"]

\* The state file's content: absent, unparseable, or a JSON {date, period}.
FileAbsent == [kind |-> "absent", date |-> "none", period |-> "none"]
FileCorrupt == [kind |-> "corrupt", date |-> "none", period |-> "none"]
FileRecord(d, p) == [kind |-> "record", date |-> d, period |-> p]

\* JavaScript's null, as readLastSend returns it.
Null == [isNull |-> TRUE, date |-> "undefined", period |-> "undefined"]

\* readLastSend without JSON.parse: the text read has no date and no period.
readLastSendUnparsed(content, readOk) ==
    IF readOk /\ content.kind = "record"
    THEN [isNull |-> FALSE, date |-> "undefined", period |-> "undefined"]
    ELSE Null

\* readLastSend: fs.readFile then JSON.parse; any failure gives null.
readLastSend(content, readOk) ==
    IF readOk /\ content.kind = "record"
    THEN [isNull |-> FALSE, date |-> content.date, period |-> content.period]
    ELSE Null

\* The object with its two members exchanged.
LastSendDataSwapped(todayDate, period) == FileRecord(period, todayDate)

\* The object writeLastSend is given, as it lands in the file.
LastSendData(todayDate, period) == FileRecord(todayDate, period)

\* The test with the period comparison negated.
AlreadySentOtherPeriod(lastSend, todayDate, period) ==
    lastSend.date = todayDate /\ lastSend.period # period

\* lastSend?.date === todayDate && lastSend?.period === period
AlreadySent(lastSend, todayDate, period) ==
    lastSend.date = todayDate /\ lastSend.period = period

PeriodIndex(hour) == IF hour < MorningLimitIndex THEN "morning" ELSE "evening"

\* handler of api/send.js: what it answers once run() settles.
sendHandler(threw, error) ==
    IF threw
    THEN [status |-> 500, body |-> <<"Erro na execu{ccedil}{atilde}o: ", error>>]
    ELSE [status |-> 200, body |-> <<"Mensagem enviada com sucesso.">>]

\* ------------------------------------------------------ index.js: run()
IdleRun ==
    [pc |-> "idle", proc |-> "none", todayDate |-> "none", period |-> "none",
     readMatch |-> FALSE, todayTasks |-> <<>>, message |-> <<>>,
     calls |-> <<>>, sendResult |-> "none", writeResult |-> "none",
     error |-> "none", outcome |-> "none", responses |-> <<>>]

InFlight(r) == run[r].pc \notin {"idle", "done"}

\* run() settles (returns or throws) and its locals go out of scope; a run
\* called by the handler of api/send.js is answered in the same turn.
Settle(rec, threw, error, outcome) ==
    [rec EXCEPT !.pc = "done", !.outcome = outcome, !.error = error,
                !.todayTasks = <<>>, !.message = <<>>,
                !.responses = IF rec.proc = "server"
                              THEN Append(@, sendHandler(threw, error))
                              ELSE @]

\* run(), up to its first await: the clock is read once.
Begin(p) ==
    [IdleRun EXCEPT !.pc = "read", !.proc = p, !.todayDate = Today,
                    !.period = PeriodIndex(HourSlots[now])]

\* A new call takes the lowest free slot.
FreeSlot(r) ==
    /\ run[r].pc = "idle"
    /\ \A o \in Slots : o < r => run[o].pc # "idle"
    /\ started.server + started.cli < MaxRuns

\* Evaluation of index.js in process p: the RUNNING guard.  TRUE when the
\* module goes on to load; otherwise the process exits.
GuardPasses(p) == ~RUNNING[p]

\* node index.js: the module is evaluated (the RUNNING guard), then, argv[1]
\* naming index.js, run() is called once.
StartCli(r) ==
    /\ FreeSlot(r)
    /\ proc[CliProc[r]] = "fresh"
    /\ GuardPasses(CliProc[r])
    /\ RUNNING' = [RUNNING EXCEPT ![CliProc[r]] = TRUE]
    /\ proc' = [proc EXCEPT ![CliProc[r]] = "up"]
    /\ run' = [run EXCEPT ![r] = Begin(CliProc[r])]
    /\ started' = [started EXCEPT !.cli = @ + 1]
    /\ overlapped' = (overlapped \/ \E o \in Slots : InFlight(o))
    /\ UNCHANGED <<now, file, delivered, ioFault, hndVars, fmtVars>>

\* The server process imports api/send.js, which imports index.js: the
\* module is evaluated once (the RUNNING guard); run() is not called.
LoadServer ==
    /\ proc["server"] = "fresh"
    /\ GuardPasses("server")
    /\ RUNNING' = [RUNNING EXCEPT !["server"] = TRUE]
    /\ proc' = [proc EXCEPT !["server"] = "up"]
    /\ UNCHANGED <<now, file, run, started, delivered, overlapped, ioFault,
                   hndVars, fmtVars>>

\* handler(req, res) of api/send.js is invoked and calls run(): neither reads
\* RUNNING.
Invoke(r) ==
    /\ FreeSlot(r)
    /\ proc["server"] = "up"
    /\ run' = [run EXCEPT ![r] = Begin("server")]
    /\ started' = [started EXCEPT !.server = @ + 1]
    /\ overlapped' = (overlapped \/ \E o \in Slots : InFlight(o))
    /\ UNCHANGED <<now, file, proc, RUNNING, delivered, ioFault, hndVars, fmtVars>>

\* await readLastSend(), then the already-sent test; lastSend is not read
\* again.  readMatch is history: whether the record read was a record of
\* this run's (todayDate, period).
ReadStep(r) ==
    /\ run[r].pc = "read"
    /\ \E readOk \in BOOLEAN :
        LET lastSend == readLastSend(file, readOk)
            rec == [run[r] EXCEPT
                      !.calls = Append(@, "read"),
                      !.readMatch = (~lastSend.isNull
                                     /\ lastSend.date = run[r].todayDate
                                     /\ lastSend.period = run[r].period)]
        IN  /\ run' = [run EXCEPT ![r] =
                         IF AlreadySent(lastSend, rec.todayDate, rec.period)
                         THEN Settle(rec, FALSE, "none", "skip")
                         ELSE [rec EXCEPT !.pc = "q1"]]
            /\ ioFault' = (ioFault \/ (~readOk /\ file.kind = "record"))
    /\ UNCHANGED <<now, file, proc, RUNNING, started, delivered, overlapped,
                   hndVars, fmtVars>>

\* const todayTasks = await queryNotion({due today, not completed})
Query1(r) ==
    /\ run[r].pc = "q1"
    /\ \E resp \in NotionResponses :
        LET q == queryNotion(resp)
            rec == [run[r] EXCEPT !.calls = Append(@, "query")]
        IN  run' = [run EXCEPT ![r] =
                      IF q.threw
                      THEN Settle(rec, TRUE, q.error, "threw")
                      ELSE [rec EXCEPT !.pc = "q2", !.todayTasks = q.value]]
    /\ UNCHANGED <<now, file, proc, RUNNING, started, delivered, overlapped,
                   ioFault, hndVars, fmtVars>>

\* const changedTasks = await queryNotion({edited today, in progress or
\* completed}); then both messages are formatted and one is selected.  The
\* task lists are not read again: only the selected message is kept.
Query2(r) ==
    /\ run[r].pc = "q2"
    /\ \E resp \in NotionResponses :
        LET q == queryNotion(resp)
            rec == [run[r] EXCEPT !.calls = Append(@, "query")]
            morningMessage == formatTasks(rec.todayTasks, MorningTitleIndex)
            eveningMessage == formatTasks(q.value, EveningTitleIndex)
            message == IF rec.period = "morning" THEN morningMessage
                       ELSE eveningMessage
        IN  run' = [run EXCEPT ![r] =
                      IF q.threw
                      THEN Settle(rec, TRUE, q.error, "threw")
                      ELSE [rec EXCEPT !.pc = "send", !.message = message,
                                       !.todayTasks = <<>>]]
    /\ UNCHANGED <<now, file, proc, RUNNING, started, delivered, overlapped,
                   ioFault, hndVars, fmtVars>>

\* await sendToSlack(message); the message is not read again.
Send(r) ==
    /\ run[r].pc = "send"
    /\ \E resp \in SlackResponses :
        LET s == sendToSlackIndex(resp)
            rec == [run[r] EXCEPT !.calls = Append(@, "send"),
                                  !.sendResult = resp]
        IN  /\ run' = [run EXCEPT ![r] =
                         IF s.threw
                         THEN Settle(rec, TRUE, s.error, "threw")
                         ELSE [rec EXCEPT !.pc = "write", !.message = <<>>]]
            /\ delivered' =
                 IF resp = "ok"
                 THEN [delivered EXCEPT ![rec.period] = @ + 1]
                 ELSE delivered
    /\ UNCHANGED <<now, file, proc, RUNNING, started, overlapped, ioFault,
                   hndVars, fmtVars>>

\* await writeLastSend({date: todayDate, period}): fs.writeFile first opens
\* the file for writing, which truncates it; an error is logged and swallowed.
WriteOpen(r) ==
    /\ run[r].pc = "write"
    /\ \E ok \in BOOLEAN :
        LET rec == [run[r] EXCEPT !.calls = Append(@, "write")]
        IN  IF ok
            THEN /\ file' = FileCorrupt
                 /\ run' = [run EXCEPT ![r] = [rec EXCEPT !.pc = "writing"]]
                 /\ UNCHANGED ioFault
            ELSE /\ ioFault' = TRUE
                 /\ run' = [run EXCEPT ![r] =
                              Settle([rec EXCEPT !.writeResult = "failed"],
                                     FALSE, "none", "sent")]
                 /\ UNCHANGED file
    /\ UNCHANGED <<now, proc, RUNNING, started, delivered, overlapped,
                   hndVars, fmtVars>>

\* fs.writeFile then writes the JSON text; run() logs and returns.
WriteData(r) ==
    /\ run[r].pc = "writing"
    /\ \E ok \in BOOLEAN :
        IF ok
        THEN /\ file' = LastSendData(run[r].todayDate, run[r].period)
             /\ run' = [run EXCEPT ![r] =
                          Settle([run[r] EXCEPT !.writeResult = "ok"],
                                 FALSE, "none", "sent")]
             /\ UNCHANGED ioFault
        ELSE /\ file' = FileCorrupt
             /\ ioFault' = TRUE
             /\ run' = [run EXCEPT ![r] =
                          Settle([run[r] EXCEPT !.writeResult = "failed"],
                                 FALSE, "none", "sent")]
    /\ UNCHANGED <<now, proc, RUNNING, started, delivered, overlapped,
                   hndVars, fmtVars>>

\* A settled call leaves its slot; a command-line process has then nothing
\* left to do and exits, so the slot's next `node index.js` is a new process.
Retire(r) ==
    /\ run[r].pc = "done"
    /\ run' = [run EXCEPT ![r] = IdleRun]
    /\ IF run[r].proc = "server"
       THEN UNCHANGED <<proc, RUNNING>>
       ELSE /\ proc' = [proc EXCEPT ![run[r].proc] = "fresh"]
            /\ RUNNING' = [RUNNING EXCEPT ![run[r].proc] = FALSE]
    /\ UNCHANGED <<now, file, started, delivered, overlapped, ioFault,
                   hndVars, fmtVars>>

\* The clock moves on to the next observed hour of the day.
Tick ==
    /\ now < Len(HourSlots)
    /\ now' = now + 1
    /\ UNCHANGED <<runVars, hndVars, fmtVars>>

\* ----------------------------------------------------- rest states of the
\* programs a specification does not exercise
EnvNames == <<"NOTION_API_KEY", "NOTION_DATABASE_ID", "SLACK_WEBHOOK_URL">>
IdleHnd ==
    [pc |-> "idle", period |-> "none", todayTasks |-> <<>>,
     changedTasks |-> <<>>, message |-> <<>>, calls |-> <<>>,
     failure |-> "none", responses |-> <<>>]
RunRest ==
    /\ file = FileAbsent
    /\ proc = [p \in Procs |-> "fresh"]
    /\ RUNNING = [p \in Procs |-> FALSE]
    /\ run = [r \in Slots |-> IdleRun]
    /\ started = [server |-> 0, cli |-> 0]
    /\ delivered = [k \in Periods |-> 0]
    /\ overlapped = FALSE /\ ioFault = FALSE
HndRest ==
    /\ env = [n \in 1..Len(EnvNames) |-> "set"]
    /\ hnd = IdleHnd
FmtRest ==
    /\ fmtTasks = <<>> /\ fmtTitle = <<>> /\ fmtOut = Undefined

\* ------------------------------------------------- part_001: the handler
\* A variable of process.env is unset, set to the empty string, or set.
EnvValues == {"unset", "empty", "set"}
\* !VALUE, for a variable of process.env: undefined and "" are falsy.
Falsy(v) == v # "set"

\* The list with the first falsy variable only.
MissingNamesFirstOnly(e) ==
    IF Falsy(e[1]) THEN <<EnvNames[1]>>
    ELSE IF Falsy(e[2]) THEN <<EnvNames[2]>>
    ELSE IF Falsy(e[3]) THEN <<EnvNames[3]>>
    ELSE <<>>

\* The list the handler pushes the names of the falsy variables to.
MissingNames(e) ==
    LET m1 == IF Falsy(e[1]) THEN <<EnvNames[1]>> ELSE <<>>
        m2 == IF Falsy(e[2]) THEN Append(m1, EnvNames[2]) ELSE m1
        m3 == IF Falsy(e[3]) THEN Append(m2, EnvNames[3]) ELSE m2
    IN  m3

PeriodHandler(hour) == IF hour < MorningLimitHandler THEN "morning" ELSE "evening"

\* sendToSlack of part_001: a non-ok answer is logged and thrown.
sendToSlackHandler(resp) ==
    IF resp = "netfail" THEN [threw |-> TRUE, error |-> "FetchError"]
    ELSE IF resp # "ok" THEN [threw |-> TRUE, error |-> "Erro no Slack"]
    ELSE [threw |-> FALSE, error |-> "none"]

\* The JSON bodies the handler answers with.
ConfigError(missing) ==
    [status |-> 500, error |-> "Vari{aacute}veis de ambiente n{atilde}o configuradas",
     missing |-> missing, success |-> FALSE, period |-> "none",
     todayTasksCount |-> 0, changedTasksCount |-> 0]
CaughtError(error) ==
    [status |-> 500, error |-> error, missing |-> <<>>, success |-> FALSE,
     period |-> "none", todayTasksCount |-> 0, changedTasksCount |-> 0]
Success(period, todayTasks, changedTasks) ==
    [status |-> 200, error |-> "none", missing |-> <<>>, success |-> TRUE,
     period |-> period, todayTasksCount |-> Len(todayTasks),
     changedTasksCount |-> Len(changedTasks)]

\* The catch block: the error is logged and answered with status 500.
Caught(rec, error, failure) ==
    [rec EXCEPT !.pc = "done", !.failure = failure,
                !.todayTasks = <<>>, !.changedTasks = <<>>, !.message = <<>>,
                !.responses = Append(@, CaughtError(error))]

\* handler(req, res) is invoked: the environment test, then the clock.
HInvoke ==
    /\ hnd.pc = "idle"
    /\ hnd' = IF Falsy(env[1]) \/ Falsy(env[2]) \/ Falsy(env[3])
              THEN [hnd EXCEPT !.pc = "done",
                               !.responses = Append(@, ConfigError(MissingNames(env)))]
              ELSE [hnd EXCEPT !.pc = "q1",
                               !.period = PeriodHandler(HourSlots[now])]
    /\ UNCHANGED <<now, env, runVars, fmtVars>>

HQuery1 ==
    /\ hnd.pc = "q1"
    /\ \E resp \in NotionResponses :
        LET q == queryNotion(resp)
            rec == [hnd EXCEPT !.calls = Append(@, "query")]
        IN  hnd' = IF q.threw
                   THEN Caught(rec, q.error, "query")
                   ELSE [rec EXCEPT !.pc = "q2", !.todayTasks = q.value]
    /\ UNCHANGED <<now, env, runVars, fmtVars>>

HQuery2 ==
    /\ hnd.pc = "q2"
    /\ \E resp \in NotionResponses :
        LET q == queryNotion(resp)
            rec == [hnd EXCEPT !.calls = Append(@, "query")]
            morningMessage == formatTasks(rec.todayTasks, MorningTitleHandler)
            eveningMessage == formatTasks(q.value, EveningTitleHandler)
            message == IF rec.period = "morning" THEN morningMessage
                       ELSE eveningMessage
        IN  hnd' = IF q.threw
                   THEN Caught(rec, q.error, "query")
                   ELSE [rec EXCEPT !.pc = "send", !.changedTasks = q.value,
                                    !.message = message]
    /\ UNCHANGED <<now, env, runVars, fmtVars>>

\* await sendToSlack(message), then the 200 answer.
HSend ==
    /\ hnd.pc = "send"
    /\ \E resp \in SlackResponses :
        LET s == sendToSlackHandler(resp)
            rec == [hnd EXCEPT !.calls = Append(@, "send")]
        IN  hnd' = IF s.threw
                   THEN Caught(rec, s.error, resp)
                   ELSE [rec EXCEPT
                           !.pc = "done",
                           !.todayTasks = <<>>, !.changedTasks = <<>>,
                           !.message = <<>>,
                           !.responses = Append(@, Success(rec.period,
                                                rec.todayTasks, rec.changedTasks))]
    /\ UNCHANGED <<now, env, runVars, fmtVars>>

\* The invocation is over; the process serves the next one.
HRetire ==
    /\ hnd.pc = "done"
    /\ hnd' = IdleHnd
    /\ UNCHANGED <<now, env, runVars, fmtVars>>

\* ------------------------------------------------ specification: part_001
InitHandler ==
    /\ now = 1
    /\ env \in [1..Len(EnvNames) -> EnvValues]
    /\ hnd = IdleHnd
    /\ RunRest /\ FmtRest

NextHandler == HInvoke \/ HQuery1 \/ HQuery2 \/ HSend \/ HRetire \/ Tick

SpecHandler == InitHandler /\ [][NextHandler]_vars

\* --------------------------------------------- specification: formatTasks
TaskIds == {<<"a">>, <<"a", Hyphen, "b">>}
Tasks ==
    [id : TaskIds,
     Title : {Undefined, <<>>, <<"t">>},
     Name : {Undefined, <<"n">>, <<"n", NL, "m">>},
     Status : {Undefined, <<"s">>}]
TaskLists == UNION {[1..n -> Tasks] : n \in 0..MaxTasks}
\* The titles the two programs pass.
Titles ==
    {MorningTitleIndex, EveningTitleIndex, MorningTitleHandler,
     EveningTitleHandler}

InitFormat ==
    /\ fmtTasks \in TaskLists
    /\ fmtTitle \in Titles
    /\ fmtOut = Undefined
    /\ now = 1 /\ RunRest /\ HndRest

Format ==
    /\ fmtOut = Undefined
    /\ fmtOut' = formatTasks(fmtTasks, fmtTitle)
    /\ UNCHANGED <<now, fmtTasks, fmtTitle, runVars, hndVars>>

NextFormat == Format

SpecFormat == InitFormat /\ [][NextFormat]_vars

\* --------------------------------------- specification: index.js, send.js
\* The state file as the day's first run may find it: absent, unparseable, or
\* left by the evening run of the day before.
InitialFiles == {FileAbsent, FileCorrupt, FileRecord(Yesterday, "evening")}

Init ==
    /\ now = 1
    /\ file \in InitialFiles
    /\ proc = [p \in Procs |-> "fresh"]
    /\ RUNNING = [p \in Procs |-> FALSE]
    /\ run = [r \in Slots |-> IdleRun]
    /\ started = [server |-> 0, cli |-> 0]
    /\ delivered = [k \in Periods |-> 0]
    /\ overlapped = FALSE /\ ioFault = FALSE
    /\ HndRest /\ FmtRest

Next ==
    \/ \E r \in Slots : StartCli(r)
    \/ LoadServer
    \/ \E r \in Slots : Invoke(r)
    \/ \E r \in Slots : ReadStep(r)
    \/ \E r \in Slots : Query1(r)
    \/ \E r \in Slots : Query2(r)
    \/ \E r \in Slots : Send(r)
    \/ \E r \in Slots : WriteOpen(r)
    \/ \E r \in Slots : WriteData(r)
    \/ \E r \in Slots : Retire(r)
    \/ Tick

Spec == Init /\ [][Next]_vars

\* ================================================================ claims
NetCalls(calls) == SelectSeq(calls, LAMBDA c : c \in {"query", "send"})
Has(calls, c) == \E i \in 1..Len(calls) : calls[i] = c
Settled == {r \in Slots : run[r].pc = "done"}

\* C1: a run whose read returned a record of (today, current period) ends
\* with skip, having made no query call and no send call; so a run that
\* posts has read something else.
C1_SkipOnMatch ==
    \A r \in Slots :
        run[r].readMatch =>
            /\ run[r].pc = "done" /\ run[r].outcome = "skip"
            /\ run[r].calls = <<"read">>
C1_Witness ==
    \E r \in Slots :
        run[r].readMatch /\ run[r].pc = "done" /\ file = FileRecord(Today, run[r].period)

\* C2 (as claimed): a run whose send failed, by a non-success status or by a
\* throw, does not write the state file.
C2_NoWriteAfterFailedSend ==
    \A r \in Slots :
        run[r].sendResult \in {"notok", "netfail"} =>
            /\ ~Has(run[r].calls, "write")
            /\ run[r].writeResult = "none"

C4_TwoQueriesOneSend ==
    \A r \in Settled :
        ~run[r].readMatch =>
            /\ NetCalls(run[r].calls) = <<"query", "query", "send">>
            /\ \A i \in 1..Len(run[r].calls) :
                 run[r].calls[i] = "write" =>
                     \E j \in 1..(i - 1) : run[r].calls[j] = "send"

\* C5: with any variable missing (unset or empty) the handler of part_001
\* answers once, 500, with the names of all the missing variables, each once,
\* and makes no query call and no send call.
C5_MissingAllNamed ==
    LET missing == {i \in 1..Len(EnvNames) : env[i] # "set"}
    IN  missing # {} =>
            /\ hnd.pc \in {"idle", "done"}
            /\ hnd.calls = <<>>
            /\ hnd.pc = "done" =>
                 /\ Len(hnd.responses) = 1
                 /\ hnd.responses[1].status = 500
                 /\ Len(hnd.responses[1].missing) = Cardinality(missing)
                 /\ {hnd.responses[1].missing[k] :
                        k \in 1..Len(hnd.responses[1].missing)}
                      = {EnvNames[i] : i \in missing}
C5_Witness ==
    /\ hnd.pc = "done"
    /\ env[1] = "set" /\ env[2] = "unset" /\ env[3] = "empty"
    /\ hnd.responses[1].missing = <<"NOTION_DATABASE_ID", "SLACK_WEBHOOK_URL">>

\* C6 (as claimed): a settled invocation of the handler of api/send.js has
\* answered exactly once, with 500 when the run failed (a query or the post
\* threw, or the webhook answered a non-success status) and with 200 only
\* when it did not fail.
RunFailed(r) == run[r].outcome = "threw" \/ run[r].sendResult = "notok"
C6_FailureAnswers500 ==
    \A r \in Settled :
        run[r].proc = "server" =>
            /\ Len(run[r].responses) = 1
            /\ RunFailed(r) => run[r].responses[1].status = 500
            /\ run[r].responses[1].status = 200 => ~RunFailed(r)
\* The same for the handler of part_001 (SpecHandler), which holds.
C6_HandlerAnswers ==
    hnd.pc = "done" =>
        /\ Len(hnd.responses) = 1
        /\ hnd.failure # "none" => hnd.responses[1].status = 500
        /\ hnd.responses[1].status = 200 => hnd.failure = "none"

\* C7 (as claimed): no query call throws, so no run ends in a throw with a
\* query as its last call.
C7_QueryNeverThrows ==
    \A r \in Settled :
        run[r].outcome = "threw" => run[r].calls[Len(run[r].calls)] # "query"

\* C9 (as claimed): in the server process at most one call of run() ever
\* starts, and no two calls of one process are in flight together.
C9_OneRunPerProcess ==
    /\ started.server <= 1
    /\ \A r1, r2 \in Slots :
         (r1 # r2 /\ InFlight(r1) /\ InFlight(r2)) => run[r1].proc # run[r2].proc

\* C10: a write that completes installs its writer's record whatever the
\* file held, so of two racing runs the later write decides the stored value.
C10_LaterWriteWins ==
    [][\A r \in Slots :
         (run[r].pc = "writing" /\ run'[r].pc = "done" /\ run'[r].writeResult = "ok")
            => file' = [kind |-> "record", date |-> run[r].todayDate,
                        period |-> run[r].period]]_vars
\* The race: two runs in separate processes have both read "not yet sent",
\* both had their post answered ok for the same (date, period), and both
\* written the record.
C10_Race ==
    /\ run[1].pc = "done" /\ run[2].pc = "done"
    /\ run[1].proc # run[2].proc
    /\ run[1].todayDate = run[2].todayDate /\ run[1].period = run[2].period
    /\ ~run[1].readMatch /\ ~run[2].readMatch
    /\ run[1].sendResult = "ok" /\ run[2].sendResult = "ok"
    /\ run[1].writeResult = "ok" /\ run[2].writeResult = "ok"
    /\ delivered[run[1].period] = 2
    /\ file = [kind |-> "record", date |-> run[1].todayDate, period |-> run[1].period]

\* ----------------------------------------------------- C8: formatTasks
\* The lines of a text: its pieces between newlines.
RECURSIVE SplitLines(_)
SplitLines(s) ==
    IF \A i \in 1..Len(s) : s[i] # NL THEN <<s>>
    ELSE LET k == CHOOSE i \in 1..Len(s) :
                    s[i] = NL /\ \A j \in 1..(i - 1) : s[j] # NL
         IN  <<SubSeq(s, 1, k - 1)>> \o SplitLines(SubSeq(s, k + 1, Len(s)))
NoNewline(s) == \A i \in 1..Len(s) : s[i] # NL
ShownName(task) ==
    IF Truthy(task.Title) THEN task.Title
    ELSE IF Truthy(task.Name) THEN task.Name
    ELSE <<"Sem t{iacute}tulo">>
ShownStatus(task) ==
    IF Truthy(task.Status) THEN task.Status ELSE <<"Sem status">>
ExpectedLine(task) ==
    <<"{bullet} *<", "https://www.notion.so/">>
        \o SelectSeq(task.id, LAMBDA c : c # Hyphen)
        \o <<"|">> \o ShownName(task) \o <<">* {endash} ">> \o ShownStatus(task)
OneLinePerTask ==
    LET out == SplitLines(fmtOut)
    IN  /\ Len(out) = 1 + Len(fmtTasks)
        /\ out[1] = <<"*">> \o fmtTitle \o <<"*">>
        /\ \A i \in 1..Len(fmtTasks) : out[i + 1] = ExpectedLine(fmtTasks[i])
Formatted == fmtOut # Undefined /\ Len(fmtTasks) > 0

\* C8 (as claimed): for every non-empty task list and every title the output
\* is the title line followed by one bullet line per task, in input order.
C8_OneLinePerTask == Formatted => OneLinePerTask
\* The same holds when neither the title nor any task's identifier, shown
\* name or shown status holds a newline.
OneLinePerTaskNoNewline ==
    (/\ Formatted
     /\ NoNewline(fmtTitle)
     /\ \A i \in 1..Len(fmtTasks) :
          /\ NoNewline(fmtTasks[i].id)
          /\ NoNewline(ShownName(fmtTasks[i]))
          /\ NoNewline(ShownStatus(fmtTasks[i])))
        => OneLinePerTask
OneLinePerTaskReached ==
    /\ Formatted
    /\ Len(fmtTasks) = 2
    /\ fmtTasks[1].id = <<"a", Hyphen, "b">> /\ fmtTasks[1].Title = <<>>
    /\ fmtTasks[1].Name = <<"n">> /\ fmtTasks[2].Name = <<"n", NL, "m">>
    /\ fmtTasks[2].Title = <<"t">> /\ fmtTasks[2].Status = Undefined
    /\ fmtTasks[1] # fmtTasks[2]
    /\ fmtTitle = EveningTitleHandler
    /\ OneLinePerTask

=============================================================================
